---- MODULE Spec2Model ----
(***************************************************************************)
(* Model of gen_summary.py: the PM2.5 summary pipeline                     *)
(*   process_folder -> generate_summary_table -> main's report.            *)
(* Strings are sequences of one-character strings, so that endswith, the   *)
(* ordering of file names, str(date) and ', '.join are computed.           *)
(***************************************************************************)
EXTENDS Integers, Sequences, FiniteSets, TLC

VARIABLES folder, listing, pc, i, all_data, combined_data,
          high_values, high_dates, zero_values, zero_dates,
          summary_table, stdout, csv_file, raised

vars == <<folder, listing, pc, i, all_data, combined_data,
          high_values, high_dates, zero_values, zero_dates,
          summary_table, stdout, csv_file, raised>>

(* Bound: the number of spreadsheet rows in the whole input folder. *)
MaxRows == 3

----------------------------------------------------------------------------
(* Characters and strings *)

Ord(c) ==
    CASE c = " " -> 32 [] c = "," -> 44 [] c = "-" -> 45 [] c = "." -> 46
      [] c = "0" -> 48 [] c = "1" -> 49 [] c = "2" -> 50 [] c = "3" -> 51
      [] c = "4" -> 52 [] c = "5" -> 53 [] c = "6" -> 54 [] c = "7" -> 55
      [] c = "8" -> 56 [] c = "9" -> 57
      [] c = "A" -> 65 [] c = "B" -> 66 [] c = "C" -> 67
      [] c = "l" -> 108 [] c = "s" -> 115 [] c = "t" -> 116 [] c = "x" -> 120

(* Python's str < str: lexicographic by code point, a proper prefix first. *)
StrLess(a, b) ==
    \E k \in 1..(Len(b)) :
        /\ \A j \in 1..(k - 1) : j <= Len(a) /\ a[j] = b[j]
        /\ k - 1 <= Len(a)
        /\ \/ Len(a) = k - 1
           \/ Len(a) >= k /\ Ord(a[k]) < Ord(b[k])

(* str.endswith *)
EndsWith(s, suffix) ==
    /\ Len(suffix) <= Len(s)
    /\ SubSeq(s, Len(s) - Len(suffix) + 1, Len(s)) = suffix

DigitChars == <<"0", "1", "2", "3", "4", "5", "6", "7", "8", "9">>

Digit(n) == DigitChars[n + 1]

(* zero-padded decimal of n in w digits *)
RECURSIVE Pad(_, _)
Pad(n, w) == IF w = 0 THEN <<>> ELSE Pad(n \div 10, w - 1) \o <<Digit(n % 10)>>

(* a variant of DateStr that writes the day before the month *)
DateStrDayFirst(d) ==
    Pad(d.y, 4) \o <<"-">> \o Pad(d.d, 2) \o <<"-">> \o Pad(d.m, 2)

(* datetime.date.__str__ : ISO YYYY-MM-DD *)
DateStr(d) == Pad(d.y, 4) \o <<"-">> \o Pad(d.m, 2) \o <<"-">> \o Pad(d.d, 2)

(* datetime.date ordering *)
DateLess(a, b) ==
    \/ a.y < b.y
    \/ a.y = b.y /\ a.m < b.m
    \/ a.y = b.y /\ a.m = b.m /\ a.d < b.d

(* ', '.join(strs) *)
RECURSIVE Join(_)
Join(strs) ==
    IF Len(strs) = 0 THEN <<>>
    ELSE IF Len(strs) = 1 THEN strs[1]
    ELSE strs[1] \o <<",", " ">> \o Join(Tail(strs))

----------------------------------------------------------------------------
(* Cells, rows and frames *)

TS == "Timestamp (UTC)"
PM == "PM2.5 (ug/m3)"

NaT == [kind |-> "NaT"]
NaN == [kind |-> "NaN"]
None == [kind |-> "None"]

Date(y, m, d) == [y |-> y, m |-> m, d |-> d]
Datetime(y, m, d, h) == [kind |-> "datetime", date |-> Date(y, m, d), hour |-> h]
(* a timestamp cell that does not parse as a date-time *)
BadCell == [kind |-> "text"]

(* pd.to_datetime(..., errors='coerce') on one cell *)
ToDatetime(cell) == IF cell.kind = "datetime" THEN cell ELSE NaT

(* a variant of DtDate that gives a null timestamp the least date *)
DtDateSentinel(ts) == IF ts = NaT THEN Date(1, 1, 1) ELSE ts.date

(* Series.dt.date on one cell *)
DtDate(ts) == IF ts = NaT THEN NaT ELSE ts.date

(* pd.DataFrame() *)
EmptyFrame == [columns |-> {}, rows |-> <<>>]

(* DataFrame.empty *)
IsEmpty(frame) == frame.columns = {} \/ Len(frame.rows) = 0

Range(seq) == {seq[k] : k \in 1..Len(seq)}

(* sorted file names: the order of groupby('File') and of the outer merge *)
SortNames(S) ==
    [k \in 1..Cardinality(S) |->
        CHOOSE x \in S : Cardinality({y \in S : StrLess(y, x)}) = k - 1]

(* the rows of a frame selected by a boolean mask, order kept *)
RECURSIVE MaskSelect(_, _)
MaskSelect(rows, mask) ==
    IF Len(rows) = 0 THEN <<>>
    ELSE (IF mask[1] THEN <<rows[1]>> ELSE <<>>)
            \o MaskSelect(Tail(rows), Tail(mask))

----------------------------------------------------------------------------
(* load_and_find_extreme_values *)

(* os.path.join(folder_path, file) and os.path.basename *)
PathJoin(folder_path, file) == [folder |-> folder_path, file |-> file]
Basename(file_path) == file_path.file

(* a variant of LoadSheet whose failure path leaves a row behind *)
LoadSheetLeaky(sheet, file_path) ==
    IF \/ ~sheet.readable
       \/ TS \notin sheet.columns
       \/ PM \notin sheet.columns
    THEN [frame |->
            [columns |-> {TS, PM, "File"},
             rows |-> << [c \in {TS, PM, "File"} |->
                            IF c = TS THEN NaT
                            ELSE IF c = PM THEN 0
                            ELSE Basename(file_path)] >>],
          printed |-> <<[msg |-> "Error processing", file |-> file_path.file]>>]
    ELSE [frame |->
            [columns |-> {TS, PM, "File"},
             rows |-> [k \in 1..Len(sheet.rows) |->
                        [c \in {TS, PM, "File"} |->
                            IF c = TS THEN ToDatetime(sheet.rows[k][TS])
                            ELSE IF c = PM THEN sheet.rows[k][PM]
                            ELSE Basename(file_path)]]],
          printed |-> <<>>]

(* pd.read_excel(file_path) gives `sheet`, or raises; data['Timestamp (UTC)'] and
   data[['Timestamp (UTC)', 'PM2.5 (ug/m3)']] raise KeyError on a missing column;
   every exception is caught, printed, and an empty frame returned. *)
LoadSheet(sheet, file_path) ==
    IF \/ ~sheet.readable
       \/ TS \notin sheet.columns
       \/ PM \notin sheet.columns
    THEN [frame |-> EmptyFrame,
          printed |-> <<[msg |-> "Error processing", file |-> file_path.file]>>]
    ELSE [frame |->
            [columns |-> {TS, PM, "File"},
             rows |-> [k \in 1..Len(sheet.rows) |->
                        [c \in {TS, PM, "File"} |->
                            IF c = TS THEN ToDatetime(sheet.rows[k][TS])
                            ELSE IF c = PM THEN sheet.rows[k][PM]
                            ELSE Basename(file_path)]]],
          printed |-> <<>>]

LoadAndFindExtremeValues(disk, file_path) == LoadSheet(disk[file_path.file], file_path)

(* the test of process_folder's loop *)
IsSpreadsheet(file) ==
    EndsWith(file, <<".", "x", "l", "s", "x">>) \/ EndsWith(file, <<".", "x", "l", "s">>)

(* pd.concat(frames, ignore_index=True); raises on an empty list *)
RECURSIVE ConcatRows(_, _)
ConcatRows(frames, cols) ==
    IF Len(frames) = 0 THEN <<>>
    ELSE [k \in 1..Len(frames[1].rows) |->
            [c \in cols |-> IF c \in frames[1].columns
                            THEN frames[1].rows[k][c] ELSE NaN]]
         \o ConcatRows(Tail(frames), cols)

PdConcat(frames) ==
    IF Len(frames) = 0
    THEN [ok |-> FALSE, error |-> "ValueError: No objects to concatenate"]
    ELSE [ok |-> TRUE,
          frame |-> [columns |-> UNION {frames[k].columns : k \in 1..Len(frames)},
                     rows |-> ConcatRows(frames,
                                UNION {frames[k].columns : k \in 1..Len(frames)})]]

----------------------------------------------------------------------------
(* calculate_days_with_dates *)

(* order of the (File, Date) group keys: groupby sorts its keys *)
KeyLess(a, b) ==
    \/ StrLess(a.File, b.File)
    \/ a.File = b.File /\ DateLess(a.Date, b.Date)

(* sorted (File, Date) group keys *)
SortKeys(S) ==
    [k \in 1..Cardinality(S) |->
        CHOOSE x \in S : Cardinality({y \in S : KeyLess(y, x)}) = k - 1]

(* Series.unique(): the values in order of first appearance *)
RECURSIVE Unique(_)
Unique(x) ==
    IF Len(x) = 0 THEN <<>>
    ELSE IF x[Len(x)] \in Range(SubSeq(x, 1, Len(x) - 1))
    THEN Unique(SubSeq(x, 1, Len(x) - 1))
    ELSE Append(Unique(SubSeq(x, 1, Len(x) - 1)), x[Len(x)])

(* sorted(dates): a list sort, duplicates kept *)
RECURSIVE Sorted(_)
(* the position of the first least element of a non-empty list *)
ArgMin(x) ==
    CHOOSE j \in 1..Len(x) :
        \A l \in 1..Len(x) : ~DateLess(x[l], x[j]) /\ (x[l] = x[j] => j <= l)

Without(x, k) == SubSeq(x, 1, k - 1) \o SubSeq(x, k + 1, Len(x))

Sorted(x) ==
    IF Len(x) = 0 THEN <<>>
    ELSE <<x[ArgMin(x)]>> \o Sorted(Without(x, ArgMin(x)))

(* lambda x: ', '.join(map(str, sorted(x.unique()))) *)
MapStr(s) == [k \in 1..Len(s) |-> DateStr(s[k])]

JoinDates(x) == Join(MapStr(Sorted(Unique(x))))

(* groupby(['File', 'Date']).size().reset_index(name='Count'):
   one row per key present, rows with a null key dropped, keys sorted *)
GroupKey(row) == [File |-> row["File"], Date |-> DtDate(row[TS])]

GroupSizes(rows, ordered) ==
    [k \in 1..Len(ordered) |->
        [File |-> ordered[k].File, Date |-> ordered[k].Date,
         Count |-> Cardinality({j \in 1..Len(rows) : GroupKey(rows[j]) = ordered[k]})]]

DailyCounts(rows) ==
    GroupSizes(rows,
        SortKeys({GroupKey(rows[k]) :
                    k \in {j \in 1..Len(rows) : DtDate(rows[j][TS]) # NaT}}))

(* the 'Date' values of one group of daily_counts.groupby('File') *)
RECURSIVE GroupDates(_, _)
GroupDates(daily_counts, file) ==
    IF Len(daily_counts) = 0 THEN <<>>
    ELSE (IF daily_counts[1].File = file THEN <<daily_counts[1].Date>> ELSE <<>>)
            \o GroupDates(Tail(daily_counts), file)

(* grouped.nunique() on one group *)
NUnique(x) == Cardinality(Range(x))

(* unique_day_counts[unique_day_counts > 1] *)
SelectBy(series, mask) ==
    [index |-> MaskSelect(series.index, mask),
     values |-> MaskSelect(series.values, mask)]

MoreThanOne(values) == [k \in 1..Len(values) |-> values[k] > 1]

FilterSeries(series) == SelectBy(series, MoreThanOne(series.values))

(* grouped = daily_counts.groupby('File')['Date'], its groups in key order:
   unique_day_counts = grouped.nunique(), specific_dates = grouped.apply(...) *)
Grouped(daily_counts, files) ==
    [counts |-> FilterSeries(
                    [index |-> files,
                     values |-> [k \in 1..Len(files) |->
                                    NUnique(GroupDates(daily_counts, files[k]))]]),
     dates |-> [index |-> files,
                values |-> [k \in 1..Len(files) |->
                                JoinDates(GroupDates(daily_counts, files[k]))]]]

GroupByFile(daily_counts) ==
    Grouped(daily_counts,
            SortNames({daily_counts[k].File : k \in 1..Len(daily_counts)}))

CalculateDaysWithDates(data, condition) ==
    GroupByFile(DailyCounts(MaskSelect(data.rows, condition)))

(* data['PM2.5 (ug/m3)'] > 1000 and data['PM2.5 (ug/m3)'] == 0 *)
HighMask(data) == [k \in 1..Len(data.rows) |-> data.rows[k][PM] > 1000]
ZeroMask(data) == [k \in 1..Len(data.rows) |-> data.rows[k][PM] = 0]

----------------------------------------------------------------------------
(* generate_summary_table *)

DaysHigh == "Days with PM2.5 > 1000"
DatesHigh == "Dates with PM2.5 > 1000"
DaysZero == "Days with PM2.5 = 0"
DatesZero == "Dates with PM2.5 = 0"

IntCell(n) == [kind |-> "int", v |-> n]
FloatCell(n) == [kind |-> "float", v |-> n]
StrCell(s) == [kind |-> "str", s |-> s]

(* a variant of PdDataFrame that places all three columns by position and
   does not compare lengths *)
PdDataFrameUnchecked(daysCol, datesCol, counts, dates) ==
    [ok |-> TRUE,
     columns |-> {"Sensor", daysCol, datesCol},
     rows |-> [k \in 1..Len(counts.index) |->
                 [c \in {"Sensor", daysCol, datesCol} |->
                     IF c = "Sensor" THEN counts.index[k]
                     ELSE IF c = daysCol THEN IntCell(counts.values[k])
                     ELSE StrCell(dates.values[k])]]]

(* pd.DataFrame({'Sensor': counts.index, daysCol: counts.values, datesCol: dates}):
   the frame's index is the index of the one Series passed (dates); the two
   arrays must have its length and are placed by position. *)
PdDataFrame(daysCol, datesCol, counts, dates) ==
    IF Len(counts.index) # Len(dates.index)
    THEN [ok |-> FALSE, error |-> "ValueError: array length does not match index length"]
    ELSE [ok |-> TRUE,
          columns |-> {"Sensor", daysCol, datesCol},
          rows |-> [k \in 1..Len(dates.index) |->
                      [c \in {"Sensor", daysCol, datesCol} |->
                          IF c = "Sensor" THEN counts.index[k]
                          ELSE IF c = daysCol THEN IntCell(counts.values[k])
                          ELSE StrCell(dates.values[k])]]]

(* the row of a frame with the given Sensor (unique in each side of the merge) *)
RowOf(frame, sensor) ==
    frame.rows[CHOOSE k \in 1..Len(frame.rows) : frame.rows[k]["Sensor"] = sensor]

Sensors(frame) == {frame.rows[k]["Sensor"] : k \in 1..Len(frame.rows)}

(* an integer column that received a NaN becomes float64 as a whole *)
Upcast(rows, cols) ==
    [k \in 1..Len(rows) |->
        [c \in DOMAIN rows[k] |->
            IF /\ c \in cols
               /\ \E j \in 1..Len(rows) : rows[j][c] = NaN
               /\ rows[k][c] # NaN
            THEN FloatCell(rows[k][c].v)
            ELSE rows[k][c]]]

(* left.merge(right, on='Sensor', how='outer'): union of keys, sorted *)
MergeRows(left, right, keys) ==
    [k \in 1..Len(keys) |->
        [c \in left.columns \cup right.columns |->
            IF c = "Sensor" THEN keys[k]
            ELSE IF c \in left.columns
            THEN (IF keys[k] \in Sensors(left)
                  THEN RowOf(left, keys[k])[c] ELSE NaN)
            ELSE (IF keys[k] \in Sensors(right)
                  THEN RowOf(right, keys[k])[c] ELSE NaN)]]

MergeOuter(left, right) ==
    [columns |-> left.columns \cup right.columns,
     rows |-> Upcast(MergeRows(left, right,
                        SortNames(Sensors(left) \cup Sensors(right))),
                     {DaysHigh, DaysZero})]

(* a variant of FillNa that fills the count columns only *)
FillNaCountsOnly(frame, value) ==
    [columns |-> frame.columns,
     rows |-> [k \in 1..Len(frame.rows) |->
                [c \in frame.columns |->
                    IF c \in {DaysHigh, DaysZero} /\ frame.rows[k][c] = NaN
                    THEN value[c] ELSE frame.rows[k][c]]]]

(* DataFrame.fillna(dict): per column, the value that replaces NaN *)
FillNa(frame, value) ==
    [columns |-> frame.columns,
     rows |-> [k \in 1..Len(frame.rows) |->
                [c \in frame.columns |->
                    IF c \in DOMAIN value /\ frame.rows[k][c] = NaN
                    THEN value[c] ELSE frame.rows[k][c]]]]

(* frame[cols] = frame[cols].astype(int); a NaN cannot be converted *)
AsTypeInt(frame, cols) ==
    IF \E k \in 1..Len(frame.rows) : \E c \in cols : frame.rows[k][c] = NaN
    THEN [ok |-> FALSE, error |-> "ValueError: cannot convert NaN to integer"]
    ELSE [ok |-> TRUE,
          columns |-> frame.columns,
          rows |-> [k \in 1..Len(frame.rows) |->
                      [c \in frame.columns |->
                          IF c \in cols THEN IntCell(frame.rows[k][c].v)
                          ELSE frame.rows[k][c]]]]

FillValues ==
    [c \in {DaysHigh, DaysZero, DatesHigh, DatesZero} |->
        IF c \in {DaysHigh, DaysZero} THEN FloatCell(0) ELSE StrCell(<<>>)]

(* lines 86-91: the integer conversion and the return *)
Returned(locals, summary) ==
    IF summary.ok
    THEN [ok |-> TRUE, locals |-> locals,
          table |-> [columns |-> summary.columns, rows |-> summary.rows]]
    ELSE [ok |-> FALSE, error |-> summary.error, locals |-> locals]

(* lines 71-84: the two frames (the left one is built first), merge, fillna *)
Combined(locals, left, right) ==
    IF ~left.ok THEN [ok |-> FALSE, error |-> left.error, locals |-> locals]
    ELSE IF ~right.ok THEN [ok |-> FALSE, error |-> right.error, locals |-> locals]
    ELSE Returned(locals,
            AsTypeInt(FillNa(MergeOuter(left, right), FillValues),
                      {DaysHigh, DaysZero}))

SummaryOf(high, zero) ==
    Combined([high_values |-> high.counts, high_dates |-> high.dates,
              zero_values |-> zero.counts, zero_dates |-> zero.dates],
             PdDataFrame(DaysHigh, DatesHigh, high.counts, high.dates),
             PdDataFrame(DaysZero, DatesZero, zero.counts, zero.dates))

GenerateSummaryTable(data) ==
    SummaryOf(CalculateDaysWithDates(data, HighMask(data)),
              CalculateDaysWithDates(data, ZeroMask(data)))

----------------------------------------------------------------------------
(* The input folders considered *)

NameA == <<"A", ".", "x", "l", "s", "x">>
NameB == <<"B", ".", "x", "l", "s">>
NameC == <<"C", ".", "t", "x", "t">>
Names == {NameA, NameB, NameC}

T1 == Datetime(2024, 1, 2, 0)
T2 == Datetime(2024, 1, 2, 13)
T3 == Datetime(2023, 12, 31, 0)

RawRow(cell, value) == [c \in {TS, PM} |-> IF c = TS THEN cell ELSE value]

RowAlphabet ==
    << RawRow(T1, 0), RawRow(T2, 0), RawRow(T3, 0), RawRow(BadCell, 0),
       RawRow(T1, 1001), RawRow(T3, 1001), RawRow(BadCell, 1001),
       RawRow(T1, 1000) >>

(* a well-formed sheet holding the rows of RowAlphabet numbered in S *)
SheetOf(order) ==
    [readable |-> TRUE, columns |-> {TS, PM},
     rows |-> [k \in 1..Len(order) |-> RowAlphabet[order[k]]]]

SortInts(S) ==
    [k \in 1..Cardinality(S) |->
        CHOOSE x \in S : Cardinality({y \in S : y < x}) = k - 1]

Sheet(S) == SheetOf(SortInts(S))

(* files that fail in the loader: unreadable, or lacking a required column *)
Corrupt == [readable |-> FALSE, columns |-> {}, rows |-> <<>>]
NoTimestampColumn ==
    [readable |-> TRUE, columns |-> {PM},
     rows |-> << [c \in {PM} |-> 0], [c \in {PM} |-> 0] >>]
NoPmColumn ==
    [readable |-> TRUE, columns |-> {TS},
     rows |-> << [c \in {TS} |-> T1], [c \in {TS} |-> T3] >>]
FailingContents == {Corrupt, NoTimestampColumn, NoPmColumn}

Fails(sheet) == sheet \in FailingContents

RowCount(sheet) == IF Fails(sheet) THEN 0 ELSE Len(sheet.rows)

ContentsUpTo(n) ==
    FailingContents \cup
        {Sheet(S) : S \in {X \in SUBSET (1..Len(RowAlphabet)) : Cardinality(X) <= n}}

(* what a file without a spreadsheet extension holds: two days of zeros *)
OtherContent == Sheet({1, 3})

(* os.listdir: the names present, in arbitrary order *)
Listings ==
    {l \in UNION {[1..n -> Names] : n \in 0..Cardinality(Names)} :
        \A a, b \in 1..Len(l) : a # b => l[a] # l[b]}

----------------------------------------------------------------------------
(* The run of main() *)

Init ==
    /\ listing \in Listings
    /\ \E cA \in ContentsUpTo(MaxRows) :
         \E cB \in ContentsUpTo(MaxRows - RowCount(cA)) :
            folder = [n \in Range(listing) |->
                        IF n = NameA THEN cA ELSE IF n = NameB THEN cB
                        ELSE OtherContent]
    /\ pc = "process_folder"
    /\ i = 1
    /\ all_data = <<>>
    /\ combined_data = None
    /\ high_values = None /\ high_dates = None
    /\ zero_values = None /\ zero_dates = None
    /\ summary_table = None
    /\ stdout = <<[msg |-> "Processing files..."]>>
    /\ csv_file = None
    /\ raised = None

(* one iteration of process_folder's loop over os.listdir *)
ProcessFile ==
    /\ pc = "process_folder"
    /\ i <= Len(listing)
    /\ IF IsSpreadsheet(listing[i])
       THEN LET data == LoadAndFindExtremeValues(folder, PathJoin("folder_path", listing[i]))
            IN  /\ all_data' = Append(all_data, data.frame)
                /\ stdout' = stdout \o data.printed
       ELSE UNCHANGED <<all_data, stdout>>
    /\ i' = i + 1
    /\ UNCHANGED <<folder, listing, pc, combined_data, high_values, high_dates,
                   zero_values, zero_dates, summary_table, csv_file, raised>>

(* process_folder's return: pd.concat(all_data, ignore_index=True) *)
ConcatAll ==
    /\ pc = "process_folder"
    /\ i > Len(listing)
    /\ LET r == PdConcat(all_data)
       IN  IF r.ok
           THEN /\ combined_data' = r.frame
                /\ pc' = "main"
                /\ UNCHANGED raised
           ELSE /\ raised' = [kind |-> "raised", error |-> r.error]
                /\ pc' = "done"
                /\ UNCHANGED combined_data
    /\ UNCHANGED <<folder, listing, i, all_data, high_values, high_dates,
                   zero_values, zero_dates, summary_table, stdout, csv_file>>

(* main: if combined_data.empty *)
NoData ==
    /\ pc = "main"
    /\ IsEmpty(combined_data)
    /\ stdout' = Append(stdout, [msg |-> "No data found in the provided folder."])
    /\ pc' = "done"
    /\ UNCHANGED <<folder, listing, i, all_data, combined_data, high_values,
                   high_dates, zero_values, zero_dates, summary_table, csv_file,
                   raised>>

(* main: summary_table = generate_summary_table(combined_data) *)
Summarize ==
    /\ pc = "main"
    /\ ~IsEmpty(combined_data)
    /\ LET r == GenerateSummaryTable(combined_data)
       IN  /\ high_values' = r.locals.high_values
           /\ high_dates' = r.locals.high_dates
           /\ zero_values' = r.locals.zero_values
           /\ zero_dates' = r.locals.zero_dates
           /\ IF r.ok
              THEN /\ summary_table' = r.table
                   /\ pc' = "report"
                   /\ UNCHANGED raised
              ELSE /\ raised' = [kind |-> "raised", error |-> r.error]
                   /\ pc' = "done"
                   /\ UNCHANGED summary_table
    /\ UNCHANGED <<folder, listing, i, all_data, combined_data, stdout, csv_file>>

(* main: if summary_table.empty ... else print and to_csv *)
Report ==
    /\ pc = "report"
    /\ IF IsEmpty(summary_table)
       THEN /\ stdout' = Append(stdout, [msg |-> "No sensors found"])
            /\ UNCHANGED csv_file
       ELSE /\ stdout' = stdout \o << [msg |-> "Summary Table"],
                                      [msg |-> "Summary table saved"] >>
            /\ csv_file' = [name |-> "summary_table_with_dates.csv",
                            header |-> <<"Sensor", DaysHigh, DatesHigh,
                                         DaysZero, DatesZero>>,
                            rows |-> summary_table.rows]
    /\ pc' = "done"
    /\ UNCHANGED <<folder, listing, i, all_data, combined_data, high_values,
                   high_dates, zero_values, zero_dates, summary_table, raised>>

Next == ProcessFile \/ ConcatAll \/ NoData \/ Summarize \/ Report

Spec == Init /\ [][Next]_vars

----------------------------------------------------------------------------
(* What the properties speak of, read off the readings themselves *)

Holds(cond, value) == IF cond = "high" THEN value > 1000 ELSE value = 0

(* the calendar days on which `sensor` has a dated reading satisfying cond *)
DaysOf(rows, sensor, cond) ==
    {rows[k][TS].date :
        k \in {j \in 1..Len(rows) : /\ rows[j]["File"] = sensor
                                    /\ rows[j][TS] # NaT
                                    /\ Holds(cond, rows[j][PM])}}

DayNumber(d) == d.y * 10000 + d.m * 100 + d.d
Earlier(a, b) == DayNumber(a) < DayNumber(b)
Ascending(days) ==
    [k \in 1..Cardinality(days) |->
        CHOOSE x \in days : Cardinality({y \in days : Earlier(y, x)}) = k - 1]

DataRows == IF combined_data = None THEN <<>> ELSE combined_data.rows
TableRows == IF summary_table = None THEN <<>> ELSE summary_table.rows
TableSensors == {TableRows[k]["Sensor"] : k \in 1..Len(TableRows)}
Printed == {stdout[k].msg : k \in 1..Len(stdout)}

(* generate_summary_table has been called and has returned or raised *)
Summarized == pc \in {"report", "done"} /\ high_values # None

MultiDay(sensor) ==
    \/ Cardinality(DaysOf(DataRows, sensor, "high")) >= 2
    \/ Cardinality(DaysOf(DataRows, sensor, "zero")) >= 2

(* str.split(', ') *)
SepAt(str, k) == k < Len(str) /\ str[k] = "," /\ str[k + 1] = " "
HasSep(str) == \E k \in 1..Len(str) : SepAt(str, k)
FirstSep(str) == CHOOSE k \in 1..Len(str) :
                    SepAt(str, k) /\ \A j \in 1..(k - 1) : ~SepAt(str, j)
RECURSIVE Split(_)
Split(str) ==
    IF ~HasSep(str) THEN <<str>>
    ELSE <<SubSeq(str, 1, FirstSep(str) - 1)>>
            \o Split(SubSeq(str, FirstSep(str) + 2, Len(str)))

(* int(digits), and datetime.date.fromisoformat *)
RECURSIVE Num(_)
Num(digits) ==
    IF Len(digits) = 0 THEN 0
    ELSE 10 * Num(SubSeq(digits, 1, Len(digits) - 1)) + (Ord(digits[Len(digits)]) - 48)
IsIso(str) ==
    /\ Len(str) = 10
    /\ str[5] = "-" /\ str[8] = "-"
    /\ \A k \in {1, 2, 3, 4, 6, 7, 9, 10} : str[k] \in Range(DigitChars)
ParseDate(str) ==
    IF IsIso(str)
    THEN Date(Num(SubSeq(str, 1, 4)), Num(SubSeq(str, 6, 7)), Num(SubSeq(str, 9, 10)))
    ELSE [invalid |-> str]
ParseDates(strs) == [k \in 1..Len(strs) |-> ParseDate(strs[k])]

(* the dates a date-list string holds; the empty string holds none *)
DatesIn(str) == IF str = <<>> THEN <<>> ELSE ParseDates(Split(str))

----------------------------------------------------------------------------
(* C1: for every combined dataset, once generate_summary_table has been
   called, a sensor is a row of the Summary Table it returns if and only if
   the sensor has at least 2 distinct days with a reading > 1000 or at least
   2 distinct days with a reading = 0. *)
C1_AppearsIffMultiDay ==
    Summarized => \A s \in Names : (s \in TableSensors) <=> MultiDay(s)

(* C2: with no file ending in .xlsx or .xls in the folder, process_folder
   returns an empty table without failing, and the run reports "no data
   found" and writes no file. *)
C2_NoMatchingFilesIsNoData ==
    (pc = "done" /\ \A k \in 1..Len(listing) : ~IsSpreadsheet(listing[k]))
        => /\ raised = None
           /\ combined_data # None
           /\ "No data found in the provided folder." \in Printed
           /\ csv_file = None

(* the spreadsheet files of the listing that load, in listing order *)
LoadableMask ==
    [k \in 1..Len(listing) |->
        IsSpreadsheet(listing[k]) /\ ~Fails(folder[listing[k]])]
GoodFiles == MaskSelect(listing, LoadableMask)
FramesOf(files) ==
    [k \in 1..Len(files) |->
        LoadAndFindExtremeValues(folder, PathJoin("folder_path", files[k])).frame]

(* the result r of generate_summary_table is the one the run has had *)
SameOutcome(r) ==
    /\ r.locals.high_values = high_values
    /\ r.locals.high_dates = high_dates
    /\ r.locals.zero_values = zero_values
    /\ r.locals.zero_dates = zero_dates
    /\ r.ok <=> (raised = None)
    /\ r.ok => r.table = summary_table

FailingSeen(k) == IsSpreadsheet(listing[k]) /\ Fails(folder[listing[k]])

(* C3: a file that fails to open or parse, or lacks a required column, raises
   nothing out of the loader and contributes no row; every other matching
   file is loaded wherever it stands in the listing, and the combined
   dataset and its summary are those of the folder without the failing
   files. *)
C3_FailingFileContained ==
    /\ Len(all_data) = Cardinality({k \in 1..(i - 1) : IsSpreadsheet(listing[k])})
    /\ \A k \in 1..(i - 1) :
            FailingSeen(k) =>
                all_data[Cardinality({j \in 1..k : IsSpreadsheet(listing[j])})]
                    = EmptyFrame
    /\ combined_data # None =>
        /\ \A k \in 1..Len(listing) :
                FailingSeen(k) =>
                    \A j \in 1..Len(DataRows) : DataRows[j]["File"] # listing[k]
        /\ GoodFiles # <<>> => combined_data = PdConcat(FramesOf(GoodFiles)).frame
    /\ (Summarized /\ GoodFiles # <<>>) =>
            SameOutcome(GenerateSummaryTable(PdConcat(FramesOf(GoodFiles)).frame))

(* a failing file listed before a file whose sensor reaches the written table *)
C3_Witness ==
    /\ pc = "done"
    /\ csv_file # None
    /\ \E a, b \in 1..Len(listing) :
            a < b /\ FailingSeen(a) /\ listing[b] \in TableSensors

(* C4: whenever neither condition retains a sensor, generate_summary_table
   returns an empty table, the run reports "no sensors found" and writes no
   file; a file is written only for a table with at least one row. *)
C4_NothingRetainedIsNoSensors ==
    /\ (pc = "done" /\ high_values # None
            /\ high_values.index = <<>> /\ zero_values.index = <<>>)
        => /\ raised = None
           /\ summary_table # None
           /\ Len(TableRows) = 0
           /\ "No sensors found" \in Printed
           /\ csv_file = None
    /\ csv_file # None => Len(TableRows) >= 1

(* a row's counts are integers, and a condition that did not retain the
   row's sensor shows 0 and the empty string *)
ZeroFilled(row, daysCol, datesCol, counts) ==
    /\ row[daysCol].kind = "int"
    /\ row[daysCol].v \in Nat
    /\ row["Sensor"] \notin Range(counts.index) =>
            row[daysCol] = IntCell(0) /\ row[datesCol] = StrCell(<<>>)

(* C5: in every Summary Table returned, both counts of every row are
   non-negative integers, and a sensor absent from one condition's result has
   count 0 and the empty string as date-list (never null) for it. *)
C5_ZeroFill ==
    summary_table # None =>
        \A k \in 1..Len(TableRows) :
            /\ ZeroFilled(TableRows[k], DaysHigh, DatesHigh, high_values)
            /\ ZeroFilled(TableRows[k], DaysZero, DatesZero, zero_values)

(* a row of a sensor retained for zeros only *)
C5_Witness ==
    /\ summary_table # None
    /\ \E k \in 1..Len(TableRows) :
            /\ TableRows[k]["Sensor"] \notin Range(high_values.index)
            /\ TableRows[k]["Sensor"] \in Range(zero_values.index)
            /\ TableRows[k][DaysZero].v >= 2

(* the date-lists of one condition against the readings *)
DateListsExact(dates, counts, cond) ==
    /\ \A k \in 1..Len(dates.index) :
        /\ DatesIn(dates.values[k]) = Ascending(DaysOf(DataRows, dates.index[k], cond))
        /\ Len(DatesIn(dates.values[k]))
                = Cardinality(DaysOf(DataRows, dates.index[k], cond))
        /\ \A j \in 1..Len(counts.index) :
                counts.index[j] = dates.index[k]
                    => counts.values[j] = Len(DatesIn(dates.values[k]))
    /\ \A s \in Names : DaysOf(DataRows, s, cond) # {} => s \in Range(dates.index)

(* C6: for every sensor and condition, the date-list string split on ", " and
   parsed back is exactly the ascending, de-duplicated dates on which the
   sensor has a reading satisfying the condition, as many as its
   distinct-day count. *)
C6_DateListRoundTrip ==
    high_values # None =>
        /\ DateListsExact(high_dates, high_values, "high")
        /\ DateListsExact(zero_dates, zero_values, "zero")

(* three dated zero readings of one sensor, two on the same day: two dates *)
C6_Witness ==
    /\ high_values # None
    /\ \E k \in 1..Len(zero_dates.index) :
        /\ Len(DatesIn(zero_dates.values[k])) = 2
        /\ Cardinality({j \in 1..Len(DataRows) :
                            /\ DataRows[j]["File"] = zero_dates.index[k]
                            /\ DataRows[j][TS] # NaT
                            /\ DataRows[j][PM] = 0}) = 3

Retained(cond) == {s \in Names : Cardinality(DaysOf(DataRows, s, cond)) > 1}

(* C7: both mappings returned by calculate_days_with_dates have the same key
   set, the sensors whose distinct-date count is greater than 1. *)
C7_BothMappingsRetainedOnly ==
    high_values # None =>
        /\ Range(high_values.index) = Retained("high")
        /\ Range(high_dates.index) = Retained("high")
        /\ Range(zero_values.index) = Retained("zero")
        /\ Range(zero_dates.index) = Retained("zero")

NoDataOutcome ==
    "No data found in the provided folder." \in Printed /\ csv_file = None
NoSensorsOutcome == "No sensors found" \in Printed /\ csv_file = None
WrittenOutcome == csv_file # None /\ csv_file.rows = TableRows

(* C8: every run over an accessible folder ends without an uncaught failure
   in exactly one of: "no data" and no file, "no sensors found" and no file,
   the Summary Table written. *)
C8_EndsInOneOutcome ==
    pc = "done" =>
        /\ raised = None
        /\ NoDataOutcome \/ NoSensorsOutcome \/ WrittenOutcome
        /\ ~(NoDataOutcome /\ NoSensorsOutcome)

(* the frame without its null-timestamp rows *)
NotNullMask(rows) == [k \in 1..Len(rows) |-> rows[k][TS] # NaT]
DropNull(frame) ==
    [columns |-> frame.columns, rows |-> MaskSelect(frame.rows, NotNullMask(frame.rows))]

RowsOfFile(file) == {j \in 1..Len(DataRows) : DataRows[j]["File"] = file}
Unparsed(sheet) == {k \in 1..Len(sheet.rows) : sheet.rows[k][TS].kind # "datetime"}

(* C9: an unparseable timestamp is loaded as a null timestamp without failing
   its file, and null-timestamp rows, whatever their value, change no
   sensor's distinct-day count, date-list or presence in the table. *)
C9_NullTimestampsIgnored ==
    /\ combined_data # None =>
        \A k \in 1..Len(GoodFiles) :
            /\ Cardinality(RowsOfFile(GoodFiles[k])) = Len(folder[GoodFiles[k]].rows)
            /\ Cardinality({j \in RowsOfFile(GoodFiles[k]) : DataRows[j][TS] = NaT})
                    = Cardinality(Unparsed(folder[GoodFiles[k]]))
    /\ Summarized => SameOutcome(GenerateSummaryTable(DropNull(combined_data)))

(* a null-timestamp zero reading of a sensor that is in the returned table *)
C9_Witness ==
    /\ summary_table # None
    /\ \E j \in 1..Len(DataRows) :
            /\ DataRows[j][TS] = NaT
            /\ DataRows[j][PM] = 0
            /\ DataRows[j]["File"] \in TableSensors

(* the count and the date-list of one condition in a row are those of the
   row's own sensor *)
Belongs(row, daysCol, datesCol, cond) ==
    IF Cardinality(DaysOf(DataRows, row["Sensor"], cond)) > 1
    THEN /\ row[daysCol].v = Cardinality(DaysOf(DataRows, row["Sensor"], cond))
         /\ DatesIn(row[datesCol].s) = Ascending(DaysOf(DataRows, row["Sensor"], cond))
    ELSE /\ row[daysCol].v = 0
         /\ row[datesCol].s = <<>>

(* C10: in every table returned, each row's counts and date-lists are those
   of the sensor named in the row, although the Sensor and count columns are
   placed by position and the date-list column by the other mapping. *)
C10_RowsPairOwnSensor ==
    summary_table # None =>
        \A k \in 1..Len(TableRows) :
            /\ Belongs(TableRows[k], DaysHigh, DatesHigh, "high")
            /\ Belongs(TableRows[k], DaysZero, DatesZero, "zero")

(* a returned row with dates, beside another sensor that has readings *)
C10_Witness ==
    /\ summary_table # None
    /\ \E k \in 1..Len(TableRows) :
        /\ TableRows[k][DaysZero].v = 2
        /\ Len(DatesIn(TableRows[k][DatesZero].s)) = 2
        /\ \E j \in 1..Len(DataRows) : DataRows[j]["File"] # TableRows[k]["Sensor"]

====
